---- MODULE Spec2Model ----
(***************************************************************************)
(* Radar selection and ranking cache of weather_generator.py.              *)
(*                                                                         *)
(* One cycle is one run of main(): load the cache, evaluate the default    *)
(* station, optionally search the cached top5, display, optionally run a   *)
(* full scan.  The cycle is cut into steps at every station fetch and at   *)
(* every write of the cache file, so that an interrupt can fall between    *)
(* them.  Images are small rasters of RGB pixels; the leaderboard text     *)
(* drawn on a canvas is kept as the list of entries drawn (field panel):   *)
(* it is black, so it takes part in the comparison of two images and adds  *)
(* nothing to the count of pixels that are neither black nor white.        *)
(***************************************************************************)
EXTENDS Integers, Sequences, FiniteSets, TLC

\* ------------------------------------------------------------------ bounds
MaxCycles == 2         \* main() runs at most this many times
MaxChanges == 1        \* the radar frames change at most this many times
MaxTicks == 2          \* the clock advances at most this far past T0
CanvasW == 5           \* canvas width in pixels
CanvasH == 2           \* canvas height in pixels

\* --------------------------------------------------------- configuration
full_scan_interval == 2       \* config.get('full_scan_interval', 3600)
interesting_threshold == 15   \* config.get('interesting_threshold', 15)
quantize_threshold == 75      \* quantize_to_seven_colors(..., threshold=75)
TopN == 5                     \* sorted_stations[:5]

\* config["station"] names the default station, config["stations"] lists the
\* stations of the full scan; the two keys are independent
default_station == "D"
stations == <<"A", "B">>
StationNames == {stations[k] : k \in 1..Len(stations)} \cup {default_station}
show_top_5 == TRUE

\* The epoch clock is far past one interval when the program first runs.
T0 == full_scan_interval

\* ------------------------------------------------------------ pixel level
white == <<255, 255, 255>>
black == <<0, 0, 0>>
palette_5 == << <<255, 0, 0>>, <<0, 255, 0>>, <<0, 0, 255>>,
                <<255, 255, 0>>, <<255, 128, 0>>, <<0, 0, 0>> >>

\* distance(c1, c2) squared; sqrt is monotone, so <= and min agree with it
distance2(c1, c2) ==
    (c1[1] - c2[1]) * (c1[1] - c2[1]) + (c1[2] - c2[2]) * (c1[2] - c2[2])
        + (c1[3] - c2[3]) * (c1[3] - c2[3])

\* a walk of the palette from entry k on in which an entry at the same
\* distance replaces the one held
RECURSIVE MinByDistanceLast(_, _, _)
MinByDistanceLast(p, k, best) ==
    IF k > Len(palette_5) THEN best
    ELSE MinByDistanceLast(p, k + 1,
             IF distance2(p, palette_5[k]) <= distance2(p, best) THEN palette_5[k] ELSE best)

\* min(palette_5, key=...): walks the palette from entry k on and replaces the
\* entry it holds only by one that is strictly nearer
RECURSIVE MinByDistance(_, _, _)
MinByDistance(p, k, best) ==
    IF k > Len(palette_5) THEN best
    ELSE MinByDistance(p, k + 1,
             IF distance2(p, palette_5[k]) < distance2(p, best) THEN palette_5[k] ELSE best)

\* a min() in which the last of several nearest entries wins
best_color_LastWins(p) == MinByDistanceLast(p, 2, palette_5[1])

best_color(p) == MinByDistance(p, 2, palette_5[1])

QuantizePixel(p, threshold) ==
    IF distance2(p, white) <= threshold * threshold THEN white ELSE best_color(p)

NoImage == [mode |-> "none", size |-> <<0, 0>>, data |-> <<>>, panel |-> <<>>]

quantize_to_seven_colors(img, threshold) ==
    [img EXCEPT !.data = [k \in 1..Len(img.data) |-> QuantizePixel(img.data[k], threshold)]]

\* a comparison of the pixel lists alone
images_are_equal_PixelsOnly(img1, img2) ==
    img1.data = img2.data /\ img1.panel = img2.panel

images_are_equal(img1, img2) ==
    IF img1.mode # img2.mode \/ img1.size # img2.size
    THEN FALSE
    ELSE img1.data = img2.data /\ img1.panel = img2.panel

RECURSIVE CountNonBw(_)
CountNonBw(pixels) ==
    IF pixels = <<>> THEN 0
    ELSE (IF Head(pixels) \notin {black, white} THEN 1 ELSE 0) + CountNonBw(Tail(pixels))

\* the share of the black and white pixels instead
calculate_non_bw_percentage_BwShare(img) ==
    IF img.data = <<>> THEN 0
    ELSE ((Len(img.data) - CountNonBw(img.data)) * 100) \div Len(img.data)

\* (non_bw_count / len(pixels)) * 100
calculate_non_bw_percentage(img) ==
    IF img.data = <<>> THEN 0
    ELSE (CountNonBw(img.data) * 100) \div Len(img.data)

\* ------------------------------------------------------- source frames
\* What a station's radar endpoint currently serves, after scaling to the
\* canvas: frame f has Rain(f) pixels of precipitation on a base map.
NumPixels == CanvasW * CanvasH
FrameIds == {1, 2, 3}
Rain(f) == IF f = 1 THEN 0 ELSE IF f = 2 THEN 1 ELSE (NumPixels * 6) \div 10
RainPixel(k) == IF k % 2 = 1 THEN <<30, 200, 40>> ELSE <<250, 60, 20>>
BasePixel(k) == IF k % 2 = 1 THEN <<235, 235, 235>> ELSE <<12, 12, 12>>
FramePixels(f) == [k \in 1..NumPixels |-> IF k <= Rain(f) THEN RainPixel(k) ELSE BasePixel(k)]

\* ------------------------------------------------------------ dictionaries
EmptyDict == [k \in {} |-> 0]
Get(d, k, dflt) == IF k \in DOMAIN d THEN d[k] ELSE dflt
Put(d, k, v) == [x \in (DOMAIN d) \cup {k} |-> IF x = k THEN v ELSE d[x]]

\* Outcome of the request and decoding of one station's frame.
FetchOutcomes == {"ok", "fetch_failed", "decode_error"}

VARIABLES
    file,                \* radar/radar_state.json: [kind, data]
    quant,               \* per station: radar/eink_quantized_display_<station>.bmp
    canvas,              \* per station: radar/eink_display_<station>.bmp
    clock,               \* time.time()
    source,              \* per station: the frame the radar endpoint serves
    pc,                  \* position of main()
    state, now, config, top5_list,
    default_updated, default_percentage, should_update, final_display_image,
    best_station, best_percentage, best_image_path,
    percentages, idx,
    ncycles,             \* how many times main() has been started
    nchanges,            \* how many times a radar frame has changed
    cycle,               \* history of the running cycle
    last_decided,        \* 'now' of the last cycle that decided on a full scan
    last_scan,           \* decision time and top5 of the last completed full scan
    prev_done_quiet,     \* a cycle completed and no source changed since it began
    gwi,                 \* one call of generate_weather_image, statement by statement
    net,                 \* what the radar endpoint answers to that call
    arg,                 \* the input of one call of a helper function
    result               \* what that call returned

durable == <<file, quant, canvas>>
env == <<clock, source>>
locals == <<state, now, config, top5_list, default_updated, default_percentage,
            should_update, final_display_image, best_station, best_percentage,
            best_image_path, percentages, idx>>
history == <<ncycles, nchanges, cycle, last_decided, last_scan, prev_done_quiet>>
aux == <<gwi, net, arg, result>>
vars == <<file, quant, canvas, clock, source, pc, state, now, config, top5_list,
          default_updated, default_percentage, should_update, final_display_image,
          best_station, best_percentage, best_image_path, percentages, idx,
          ncycles, nchanges, cycle, last_decided, last_scan, prev_done_quiet,
          gwi, net, arg, result>>

None == "None"
NoScan == [ts |-> 0, top5 |-> <<>>]
NewCycle == [displayed |-> <<>>, cand_fetched |-> <<>>, scored |-> <<>>,
             scan_fetched |-> <<>>, writes |-> 0, stale_at_start |-> FALSE,
             file_at_start |-> [kind |-> "absent", data |-> EmptyDict],
             changed |-> {}, prev_decided |-> 0, default_outcome |-> None,
             abort_at |-> None, abort_why |-> None]

\* no call is being followed
NoCall == [pc |-> "none"]
NoNet == [responses |-> <<>>]
NoArg == [fn |-> "none"]
NoResult == [returned |-> FALSE]

\* the locals of main() before main() runs
NoLocals ==
    /\ state = EmptyDict
    /\ now = 0
    /\ config = [station |-> default_station, top5 |-> <<>>]
    /\ top5_list = <<>>
    /\ default_updated = FALSE
    /\ default_percentage = 0
    /\ should_update = FALSE
    /\ final_display_image = None
    /\ best_station = None
    /\ best_percentage = 0
    /\ best_image_path = None
    /\ percentages = <<>>
    /\ idx = 0

Init ==
    /\ file = [kind |-> "absent", data |-> EmptyDict]
    /\ quant = [s \in StationNames |-> NoImage]
    /\ canvas = [s \in StationNames |-> NoImage]
    /\ clock = T0
    /\ source \in [StationNames -> FrameIds]
    /\ pc = "idle"
    /\ NoLocals
    /\ ncycles = 0
    /\ nchanges = 0
    /\ cycle = NewCycle
    /\ last_decided = 0
    /\ last_scan = NoScan
    /\ prev_done_quiet = FALSE
    /\ gwi = NoCall
    /\ net = NoNet
    /\ arg = NoArg
    /\ result = NoResult

\* --------------------------------------------------------------- file I/O
\* load_state: None when the file does not exist; json.load raises on a
\* file that is not a JSON document.
load_state_raises == file.kind = "corrupt"
\* load_state(STATE_FILE) or {}
load_state == IF file.kind = "json" THEN file.data ELSE EmptyDict

\* a save_state that writes the timestamp and nothing else
save_state_TimestampOnly(st) ==
    [kind |-> "json", data |-> [k \in (DOMAIN st) \ {"top5"} |-> st[k]]]

save_state(st) == [kind |-> "json", data |-> st]

\* ------------------------------------------------- generate_weather_image
\* The canvas: the station's frame with the leaderboard drawn on it.
Composite(station) ==
    [mode |-> "RGB", size |-> <<CanvasW, CanvasH>>,
     data |-> FramePixels(source[station]),
     panel |-> IF config.top5 # <<>> /\ show_top_5 THEN config.top5 ELSE <<>>]

\* quantize_to_seven_colors applied to the canvas of each frame, worked out
\* once; the leaderboard text is black and stays as drawn
QuantizedFrame ==
    [f \in FrameIds |->
        quantize_to_seven_colors([mode |-> "RGB", size |-> <<CanvasW, CanvasH>>,
                                  data |-> FramePixels(f), panel |-> <<>>],
                                 quantize_threshold).data]

\* a generate_weather_image that skips the comparison with the old image
generate_weather_image_NoCompare(station, outcome) ==
    IF outcome = "fetch_failed"
    THEN [ret |-> None, canvas |-> canvas, quant |-> quant]
    ELSE LET final_img == Composite(station)
             new_quant == [final_img EXCEPT !.data = QuantizedFrame[source[station]]]
         IN [ret |-> "updated",
             canvas |-> [canvas EXCEPT ![station] = final_img],
             quant |-> [quant EXCEPT ![station] = new_quant]]

\* ret: "None" (return None), "unchanged" (return None, False),
\*      "updated" (return quantized_output_path, True)
generate_weather_image(station, outcome) ==
    IF outcome = "fetch_failed"
    THEN [ret |-> None, canvas |-> canvas, quant |-> quant]
    ELSE LET final_img == Composite(station)
             old_quant == quant[station]
             new_quant == [final_img EXCEPT !.data = QuantizedFrame[source[station]]]
         IN [ret |-> IF old_quant # NoImage /\ images_are_equal(old_quant, new_quant)
                     THEN "unchanged" ELSE "updated",
             canvas |-> [canvas EXCEPT ![station] = final_img],
             quant |-> [quant EXCEPT ![station] = new_quant]]

\* dict[station] = perc on a dict kept in insertion order
DictSet(d, station, perc) ==
    IF \E k \in 1..Len(d) : d[k][1] = station
    THEN [k \in 1..Len(d) |-> IF d[k][1] = station THEN <<station, perc>> ELSE d[k]]
    ELSE Append(d, <<station, perc>>)

\* sorted(..., key=lambda x: x[1], reverse=True) is stable: x goes behind
\* every entry whose percentage is at least its own
InsertDesc(sorted, x) ==
    LET n == Cardinality({k \in 1..Len(sorted) : sorted[k][2] >= x[2]})
    IN SubSeq(sorted, 1, n) \o <<x>> \o SubSeq(sorted, n + 1, Len(sorted))

RECURSIVE SortDesc(_)
SortDesc(items) ==
    IF items = <<>> THEN <<>>
    ELSE InsertDesc(SortDesc(SubSeq(items, 1, Len(items) - 1)), items[Len(items)])

\* an update_top5 that keeps the first five in scan order
update_top5_ScanOrder(percs) ==
    SubSeq(percs, 1, IF Len(percs) < TopN THEN Len(percs) ELSE TopN)

update_top5(percs) ==
    LET sorted_stations == SortDesc(percs)
    IN SubSeq(sorted_stations, 1, IF Len(sorted_stations) < TopN THEN Len(sorted_stations) ELSE TopN)

\* [(item["station"], item["percentage"]) for item in top5_data]
FromTop5Data(top5_data) ==
    [k \in 1..Len(top5_data) |-> <<top5_data[k].station, top5_data[k].percentage>>]
\* [{"station": s, "percentage": p} for s, p in top5_list]
ToTop5Data(list) ==
    [k \in 1..Len(list) |-> [station |-> list[k][1], percentage |-> list[k][2]]]

\* state.get("last_full_scan") and (now - state["last_full_scan"] < full_scan_interval)
IsFresh(st, t) ==
    /\ Get(st, "last_full_scan", 0) # 0
    /\ t - st["last_full_scan"] < full_scan_interval
\* now - state.get("last_full_scan", 0) >= full_scan_interval
IsStale(st, t) == t - Get(st, "last_full_scan", 0) >= full_scan_interval

\* a line 271 that forgets the threshold
SearchCandidates_NoThreshold(updated, perc, cached) ==
    updated /\ cached # <<>>

\* line 271
SearchCandidates(updated, perc, cached) ==
    updated /\ perc < interesting_threshold /\ cached # <<>>

\* the stations whose persisted quantized image q replaces by a different one
Changed(q) == {s \in StationNames : q[s] # quant[s]}

\* ------------------------------------------------------------------ main
\* lines 236-254: load the cache, read the clock, pick the cached top5
StartCycle ==
    /\ pc = "idle"
    /\ ncycles < MaxCycles
    /\ ncycles' = ncycles + 1
    /\ IF load_state_raises
       THEN /\ pc' = "aborted"
            /\ cycle' = [NewCycle EXCEPT !.abort_at = "load_state",
                                         !.abort_why = "corrupt", !.file_at_start = file]
            /\ UNCHANGED locals
       ELSE /\ pc' = "default"
            /\ state' = load_state
            /\ now' = clock
            /\ top5_list' = IF IsFresh(load_state, clock)
                            THEN FromTop5Data(Get(load_state, "top5", <<>>)) ELSE <<>>
            /\ config' = [station |-> default_station,
                          top5 |-> IF IsFresh(load_state, clock)
                                   THEN FromTop5Data(Get(load_state, "top5", <<>>)) ELSE <<>>]
            /\ cycle' = [NewCycle EXCEPT !.stale_at_start = IsStale(load_state, clock),
                                         !.file_at_start = file]
            /\ UNCHANGED <<default_updated, default_percentage, should_update,
                           final_display_image, best_station, best_percentage,
                           best_image_path, percentages, idx>>
    /\ UNCHANGED <<durable, env, nchanges, last_decided, last_scan, prev_done_quiet>>
    /\ UNCHANGED aux

\* a main() that takes a failed default fetch for an unchanged image
EvalDefault_ContinueOnFailure(outcome) ==
    /\ pc = "default"
    /\ LET r == generate_weather_image(default_station, outcome)
           perc == calculate_non_bw_percentage(r.quant[default_station])
       IN IF outcome = "decode_error"
          THEN /\ pc' = "aborted"
               /\ cycle' = [cycle EXCEPT !.default_outcome = outcome,
                                         !.abort_at = "default", !.abort_why = outcome]
               /\ UNCHANGED <<durable, locals>>
          ELSE /\ quant' = r.quant
               /\ canvas' = r.canvas
               /\ default_updated' = (r.ret = "updated")
               /\ default_percentage' = perc
               /\ should_update' = (r.ret = "updated")
               /\ final_display_image' = default_station
               /\ cycle' = [cycle EXCEPT
                              !.default_outcome = outcome,
                              !.scored = <<[station |-> default_station, perc |-> perc]>>,
                              !.changed = @ \cup Changed(r.quant)]
               /\ IF SearchCandidates(r.ret = "updated", perc, top5_list)
                  THEN pc' = "candidates" /\ idx' = 1
                  ELSE pc' = "display" /\ idx' = idx
               /\ UNCHANGED <<file, state, now, config, top5_list, best_station,
                              best_percentage, best_image_path, percentages>>
    /\ UNCHANGED <<env, ncycles, nchanges, last_decided, last_scan, prev_done_quiet>>
    /\ UNCHANGED aux

\* lines 256-271: the default station; unpacking None is a TypeError
EvalDefault(outcome) ==
    /\ pc = "default"
    /\ LET r == generate_weather_image(default_station, outcome)
           perc == calculate_non_bw_percentage(r.quant[default_station])
       IN IF outcome = "decode_error" \/ r.ret = None
          THEN /\ pc' = "aborted"
               /\ cycle' = [cycle EXCEPT !.default_outcome = outcome,
                                         !.abort_at = "default", !.abort_why = outcome]
               /\ UNCHANGED <<durable, locals>>
          ELSE /\ quant' = r.quant
               /\ canvas' = r.canvas
               /\ default_updated' = (r.ret = "updated")
               /\ default_percentage' = perc
               /\ should_update' = (r.ret = "updated")
               /\ final_display_image' = default_station
               /\ cycle' = [cycle EXCEPT
                              !.default_outcome = outcome,
                              !.scored = <<[station |-> default_station, perc |-> perc]>>,
                              !.changed = @ \cup Changed(r.quant)]
               /\ IF SearchCandidates(r.ret = "updated", perc, top5_list)
                  THEN pc' = "candidates" /\ idx' = 1
                  ELSE pc' = "display" /\ idx' = idx
               /\ UNCHANGED <<file, state, now, config, top5_list, best_station,
                              best_percentage, best_image_path, percentages>>
    /\ UNCHANGED <<env, ncycles, nchanges, last_decided, last_scan, prev_done_quiet>>
    /\ UNCHANGED aux

\* lines 275-290: one iteration of the loop over the cached top5
EvalCandidate(outcome) ==
    /\ pc = "candidates"
    /\ idx <= Len(top5_list)
    /\ LET station == top5_list[idx][1]
           r == generate_weather_image(station, outcome)
           perc == calculate_non_bw_percentage(r.quant[station])
       IN IF outcome = "decode_error" \/ r.ret = None
          THEN /\ pc' = "aborted"
               /\ cycle' = [cycle EXCEPT !.cand_fetched = Append(@, station),
                                         !.abort_at = "candidate", !.abort_why = outcome]
               /\ UNCHANGED <<durable, locals>>
          ELSE /\ quant' = r.quant
               /\ canvas' = r.canvas
               /\ config' = [config EXCEPT !.station = station]
               /\ idx' = idx + 1
               /\ pc' = pc
               /\ IF r.ret = "unchanged"
                  THEN /\ cycle' = [cycle EXCEPT !.cand_fetched = Append(@, station),
                                                 !.changed = @ \cup Changed(r.quant)]
                       /\ UNCHANGED <<should_update, best_station, best_percentage,
                                      best_image_path>>
                  ELSE /\ should_update' = TRUE
                       /\ cycle' = [cycle EXCEPT
                                      !.cand_fetched = Append(@, station),
                                      !.changed = @ \cup Changed(r.quant),
                                      !.scored = Append(@, [station |-> station, perc |-> perc])]
                       /\ IF perc > best_percentage
                          THEN /\ best_percentage' = perc
                               /\ best_station' = station
                               /\ best_image_path' = station
                          ELSE UNCHANGED <<best_station, best_percentage, best_image_path>>
               /\ UNCHANGED <<file, state, now, top5_list, default_updated,
                              default_percentage, final_display_image, percentages>>
    /\ UNCHANGED <<env, ncycles, nchanges, last_decided, last_scan, prev_done_quiet>>
    /\ UNCHANGED aux

\* lines 291-293: after the loop
SelectBest ==
    /\ pc = "candidates"
    /\ idx > Len(top5_list)
    /\ final_display_image' = IF best_station # None /\ best_image_path # None
                              THEN best_image_path ELSE final_display_image
    /\ pc' = "display"
    /\ UNCHANGED <<durable, env, state, now, config, top5_list, default_updated,
                   default_percentage, should_update, best_station, best_percentage,
                   best_image_path, percentages, idx, history>>
    /\ UNCHANGED aux

\* a main() whose full-refresh check is not nested under should_update
Display_RefreshOutside ==
    /\ pc = "display"
    /\ cycle' = IF should_update
                THEN [cycle EXCEPT !.displayed = Append(@, final_display_image)]
                ELSE cycle
    /\ pc' = "refresh"
    /\ UNCHANGED <<durable, env, locals, ncycles, nchanges, last_decided, last_scan, prev_done_quiet>>
    /\ UNCHANGED aux

\* lines 297-302 and 318-319
Display ==
    /\ pc = "display"
    /\ IF should_update
       THEN /\ cycle' = [cycle EXCEPT !.displayed = Append(@, final_display_image)]
            /\ pc' = "refresh"
       ELSE /\ cycle' = cycle
            /\ pc' = "done"
    /\ UNCHANGED <<durable, env, locals, ncycles, nchanges, last_decided, last_scan, prev_done_quiet>>
    /\ UNCHANGED aux

\* a main() that reads the clock again for its staleness check
CheckFullRefresh_ClockAgain ==
    /\ pc = "refresh"
    /\ IF IsStale(state, clock)
       THEN /\ state' = Put(state, "last_full_scan", clock)
            /\ file' = save_state(Put(state, "last_full_scan", clock))
            /\ cycle' = [cycle EXCEPT !.writes = @ + 1, !.prev_decided = last_decided]
            /\ last_decided' = clock
            /\ percentages' = <<>>
            /\ idx' = 1
            /\ pc' = "scan"
       ELSE /\ pc' = "done"
            /\ UNCHANGED <<file, state, cycle, last_decided, percentages, idx>>
    /\ UNCHANGED <<quant, canvas, env, now, config, top5_list, default_updated,
                   default_percentage, should_update, final_display_image, best_station,
                   best_percentage, best_image_path, ncycles, nchanges, last_scan, prev_done_quiet>>
    /\ UNCHANGED aux

\* a main() that keeps the new timestamp in memory until the scan is over
CheckFullRefresh_LateSave ==
    /\ pc = "refresh"
    /\ IF IsStale(state, now)
       THEN /\ state' = Put(state, "last_full_scan", now)
            /\ cycle' = [cycle EXCEPT !.prev_decided = last_decided]
            /\ last_decided' = now
            /\ percentages' = <<>>
            /\ idx' = 1
            /\ pc' = "scan"
       ELSE /\ pc' = "done"
            /\ UNCHANGED <<state, cycle, last_decided, percentages, idx>>
    /\ UNCHANGED <<file, quant, canvas, env, now, config, top5_list, default_updated,
                   default_percentage, should_update, final_display_image, best_station,
                   best_percentage, best_image_path, ncycles, nchanges, last_scan, prev_done_quiet>>
    /\ UNCHANGED aux

\* lines 304-309 and 316-317
CheckFullRefresh ==
    /\ pc = "refresh"
    /\ IF IsStale(state, now)
       THEN /\ state' = Put(state, "last_full_scan", now)
            /\ file' = save_state(Put(state, "last_full_scan", now))
            /\ cycle' = [cycle EXCEPT !.writes = @ + 1, !.prev_decided = last_decided]
            /\ last_decided' = now
            /\ percentages' = <<>>
            /\ idx' = 1
            /\ pc' = "scan"
       ELSE /\ pc' = "done"
            /\ UNCHANGED <<file, state, cycle, last_decided, percentages, idx>>
    /\ UNCHANGED <<quant, canvas, env, now, config, top5_list, default_updated,
                   default_percentage, should_update, final_display_image, best_station,
                   best_percentage, best_image_path, ncycles, nchanges, last_scan, prev_done_quiet>>
    /\ UNCHANGED aux

\* lines 210-223: one iteration of full_station_scan
ScanStation(outcome) ==
    /\ pc = "scan"
    /\ idx <= Len(stations)
    /\ LET station == stations[idx]
           r == generate_weather_image(station, outcome)
           perc == calculate_non_bw_percentage(r.quant[station])
       IN IF outcome = "decode_error"
          THEN /\ pc' = "aborted"
               /\ cycle' = [cycle EXCEPT !.scan_fetched = Append(@, station),
                                         !.abort_at = "scan", !.abort_why = outcome]
               /\ UNCHANGED <<durable, locals>>
          ELSE /\ quant' = r.quant
               /\ canvas' = r.canvas
               /\ config' = [config EXCEPT !.station = station]
               /\ idx' = idx + 1
               /\ pc' = pc
               /\ percentages' = IF r.ret = None THEN percentages
                                 ELSE DictSet(percentages, station, perc)
               /\ cycle' = [cycle EXCEPT !.scan_fetched = Append(@, station),
                                         !.changed = @ \cup Changed(r.quant)]
               /\ UNCHANGED <<file, state, now, top5_list, default_updated,
                              default_percentage, should_update, final_display_image,
                              best_station, best_percentage, best_image_path>>
    /\ UNCHANGED <<env, ncycles, nchanges, last_decided, last_scan, prev_done_quiet>>
    /\ UNCHANGED aux

\* lines 312-315: after the scan
SaveTop5 ==
    /\ pc = "scan"
    /\ idx > Len(stations)
    /\ top5_list' = update_top5(percentages)
    /\ state' = Put(state, "top5", ToTop5Data(update_top5(percentages)))
    /\ file' = save_state(Put(state, "top5", ToTop5Data(update_top5(percentages))))
    /\ cycle' = [cycle EXCEPT !.writes = @ + 1]
    /\ last_scan' = [ts |-> now, top5 |-> ToTop5Data(update_top5(percentages))]
    /\ pc' = "done"
    /\ UNCHANGED <<quant, canvas, env, now, config, default_updated, default_percentage,
                   should_update, final_display_image, best_station, best_percentage,
                   best_image_path, percentages, idx, ncycles, nchanges, last_decided, prev_done_quiet>>
    /\ UNCHANGED aux

\* main() returns, or the exception or the signal ends the process
Return ==
    /\ pc \in {"done", "aborted", "killed"}
    /\ pc' = "idle"
    /\ prev_done_quiet' = (pc = "done")
    /\ cycle' = NewCycle
    /\ state' = EmptyDict
    /\ now' = 0
    /\ config' = [station |-> default_station, top5 |-> <<>>]
    /\ top5_list' = <<>>
    /\ default_updated' = FALSE
    /\ default_percentage' = 0
    /\ should_update' = FALSE
    /\ final_display_image' = None
    /\ best_station' = None
    /\ best_percentage' = 0
    /\ best_image_path' = None
    /\ percentages' = <<>>
    /\ idx' = 0
    /\ UNCHANGED <<durable, env, ncycles, nchanges, last_decided, last_scan>>
    /\ UNCHANGED aux

\* ------------------------------------------------------------ environment
Running == pc \in {"default", "candidates", "display", "refresh", "scan"}

\* the process is interrupted between two steps
Kill ==
    /\ Running
    /\ pc' = "killed"
    /\ UNCHANGED <<durable, env, locals, history>>
    /\ UNCHANGED aux

\* the process is interrupted inside save_state, after open(state_file, "w")
\* has truncated the file and before the document is written out
KillInSave ==
    /\ \/ pc = "refresh" /\ should_update /\ IsStale(state, now)
       \/ pc = "scan" /\ idx > Len(stations)
    /\ file' = [kind |-> "corrupt", data |-> EmptyDict]
    /\ pc' = "killed"
    /\ UNCHANGED <<quant, canvas, env, locals, history>>
    /\ UNCHANGED aux

\* time passes: between two cycles and, inside one, up to the staleness check
\* of line 305 (main reads the clock at line 244 and nowhere else, so where
\* in between the time passes makes no difference to it)
Tick ==
    /\ pc \in {"idle", "refresh"}
    /\ clock < T0 + MaxTicks
    /\ clock' = clock + 1
    /\ UNCHANGED <<durable, source, pc, locals, history>>
    /\ UNCHANGED aux

SourceChange ==
    /\ pc = "idle"
    /\ nchanges < MaxChanges
    /\ nchanges' = nchanges + 1
    /\ \E s \in StationNames, f \in FrameIds :
          /\ f # source[s]
          /\ source' = [source EXCEPT ![s] = f]
    /\ prev_done_quiet' = FALSE
    /\ UNCHANGED <<durable, clock, pc, locals, ncycles, cycle, last_decided, last_scan>>
    /\ UNCHANGED aux

Next ==
    \/ StartCycle
    \/ \E outcome \in FetchOutcomes : EvalDefault(outcome)
    \/ \E outcome \in FetchOutcomes : EvalCandidate(outcome)
    \/ SelectBest
    \/ Display
    \/ CheckFullRefresh
    \/ \E outcome \in FetchOutcomes : ScanStation(outcome)
    \/ SaveTop5
    \/ Return
    \/ Kill
    \/ KillInSave
    \/ Tick
    \/ SourceChange

Spec == Init /\ [][Next]_vars

\* =========================================== one call, statement by statement
\* generate_weather_image followed through its statements, for the order of
\* its requests, checks and writes.
Statuses == {200, 404, 500}
ImageContentTypes == {"image/gif"}
ContentTypes == ImageContentTypes \cup {"text/html", ""}
RadarModes == {"crop", "fit", "stretch"}
MaxAttempts == 3

\* "image" in content_type
HasImage(content_type) == content_type \in ImageContentTypes

\* what a station's two slots hold after an earlier run rendered frame f
RenderedCanvas(f) ==
    [mode |-> "RGB", size |-> <<CanvasW, CanvasH>>, data |-> FramePixels(f), panel |-> <<>>]
RenderedQuant(f) == quantize_to_seven_colors(RenderedCanvas(f), quantize_threshold)

\* everything the call leaves alone
outside == <<file, clock, source, pc, state, now, config, top5_list,
             default_updated, default_percentage, should_update, final_display_image,
             best_station, best_percentage, best_image_path, percentages, idx,
             ncycles, nchanges, cycle, last_decided, last_scan, prev_done_quiet,
             net, arg, result>>

InitFetch ==
    /\ file = [kind |-> "absent", data |-> EmptyDict]
    /\ clock = T0
    /\ pc = "idle"
    /\ NoLocals
    /\ ncycles = 0
    /\ nchanges = 0
    /\ cycle = NewCycle
    /\ last_decided = 0
    /\ last_scan = NoScan
    /\ prev_done_quiet = FALSE
    /\ arg = NoArg
    /\ result = NoResult
    /\ \E f \in FrameIds : source = [s \in StationNames |-> f]
    /\ \E prior \in {0} \cup FrameIds :
          /\ canvas = [s \in StationNames |->
                         IF prior = 0 THEN NoImage ELSE RenderedCanvas(prior)]
          /\ quant = [s \in StationNames |->
                        IF prior = 0 THEN NoImage ELSE RenderedQuant(prior)]
    /\ net \in [responses : [1..MaxAttempts -> Statuses],
                content_type : ContentTypes,
                decodable : BOOLEAN]
    /\ \E radar_mode \in RadarModes :
          gwi = [pc |-> "request", station |-> default_station,
                 radar_mode |-> radar_mode, attempt |-> 0, sent |-> 0, slept |-> 0,
                 status |-> 0, ret |-> "running", exc |-> None, old_quant |-> NoImage,
                 canvas_writes |-> 0, quant_writes |-> 0,
                 canvas_before |-> canvas[default_station],
                 quant_before |-> quant[default_station], at |-> None]

\* a retry loop that also retries after the third not-found answer, and so
\* runs out with that answer in hand
Request_RetryThird ==
    /\ gwi.pc = "request"
    /\ gwi.attempt < MaxAttempts
    /\ LET status == net.responses[gwi.attempt + 1]
           retry == status = 404 /\ gwi.attempt < 3
       IN gwi' = [gwi EXCEPT
                    !.sent = @ + 1,
                    !.status = status,
                    !.attempt = IF retry THEN @ + 1 ELSE @,
                    !.slept = IF retry THEN @ + 1 ELSE @,
                    !.pc = IF status = 200 THEN "content_type"
                           ELSE IF retry
                                THEN (IF gwi.attempt + 1 < MaxAttempts
                                      THEN "request" ELSE "content_type")
                                ELSE "returned",
                    !.ret = IF status # 200 /\ ~retry THEN None ELSE @]
    /\ UNCHANGED <<quant, canvas, outside>>

\* lines 101-111: one iteration of for attempt in range(3)
Request ==
    /\ gwi.pc = "request"
    /\ gwi.attempt < MaxAttempts
    /\ LET status == net.responses[gwi.attempt + 1]
           retry == status = 404 /\ gwi.attempt < 2
       IN gwi' = [gwi EXCEPT
                    !.sent = @ + 1,
                    !.status = status,
                    !.attempt = IF retry THEN @ + 1 ELSE @,
                    !.slept = IF retry THEN @ + 1 ELSE @,
                    !.pc = IF status = 200 THEN "content_type"
                           ELSE IF retry
                                THEN (IF gwi.attempt + 1 < MaxAttempts
                                      THEN "request" ELSE "content_type")
                                ELSE "returned",
                    !.ret = IF status # 200 /\ ~retry THEN None ELSE @]
    /\ UNCHANGED <<quant, canvas, outside>>

\* a call that takes whatever content type it is given
CheckContentType_Ignored ==
    /\ gwi.pc = "content_type"
    /\ gwi' = [gwi EXCEPT !.pc = "open"]
    /\ UNCHANGED <<quant, canvas, outside>>

\* lines 113-117
CheckContentType ==
    /\ gwi.pc = "content_type"
    /\ gwi' = IF HasImage(net.content_type)
              THEN [gwi EXCEPT !.pc = "open"]
              ELSE [gwi EXCEPT !.pc = "returned", !.ret = None]
    /\ UNCHANGED <<quant, canvas, outside>>

\* line 120: Image.open raises on a body it cannot identify
OpenImage ==
    /\ gwi.pc = "open"
    /\ gwi' = IF net.decodable
              THEN [gwi EXCEPT !.pc = "scale"]
              ELSE [gwi EXCEPT !.pc = "raised", !.exc = "UnidentifiedImageError"]
    /\ UNCHANGED <<quant, canvas, outside>>

\* lines 122-143: crop, fit, or raise ValueError
ScaleRadar ==
    /\ gwi.pc = "scale"
    /\ gwi' = IF gwi.radar_mode \in {"crop", "fit"}
              THEN [gwi EXCEPT !.pc = "load_old"]
              ELSE [gwi EXCEPT !.pc = "raised", !.exc = "ValueError"]
    /\ UNCHANGED <<quant, canvas, outside>>

\* lines 145-148: the old quantized image, if its file exists
LoadOldQuant ==
    /\ gwi.pc = "load_old"
    /\ gwi' = [gwi EXCEPT !.pc = "save_canvas", !.old_quant = quant[gwi.station]]
    /\ UNCHANGED <<quant, canvas, outside>>

\* lines 150-184: overlays drawn, final_img.save(output_path)
SaveCanvas ==
    /\ gwi.pc = "save_canvas"
    /\ canvas' = [canvas EXCEPT ![gwi.station] = Composite(gwi.station)]
    /\ gwi' = [gwi EXCEPT !.pc = "quantize", !.canvas_writes = @ + 1]
    /\ UNCHANGED <<quant, outside>>

\* line 186: quantize_to_seven_colors(output_path, quantized_output_path, 75)
\* reads the canvas file and saves its result over the quantized file
Quantize ==
    /\ gwi.pc = "quantize"
    /\ quant' = [quant EXCEPT ![gwi.station] =
                    quantize_to_seven_colors(canvas[gwi.station], quantize_threshold)]
    /\ gwi' = [gwi EXCEPT !.pc = "compare", !.quant_writes = @ + 1]
    /\ UNCHANGED <<canvas, outside>>

\* a comparison that reports no change whenever an old image exists
CompareQuant_OldExists ==
    /\ gwi.pc = "compare"
    /\ gwi' = [gwi EXCEPT !.pc = "returned",
                          !.ret = IF gwi.old_quant # NoImage
                                  THEN "unchanged" ELSE "updated"]
    /\ UNCHANGED <<quant, canvas, outside>>

\* lines 187-191: new_quant is read back from the quantized file
CompareQuant ==
    /\ gwi.pc = "compare"
    /\ gwi' = [gwi EXCEPT !.pc = "returned",
                          !.ret = IF /\ gwi.old_quant # NoImage
                                     /\ images_are_equal(gwi.old_quant, quant[gwi.station])
                                  THEN "unchanged" ELSE "updated"]
    /\ UNCHANGED <<quant, canvas, outside>>

\* the process is interrupted between two statements of the call
Interrupt ==
    /\ gwi.pc \in {"request", "content_type", "open", "scale", "load_old",
                   "save_canvas", "quantize", "compare"}
    /\ gwi' = [gwi EXCEPT !.pc = "killed", !.at = gwi.pc]
    /\ UNCHANGED <<quant, canvas, outside>>

NextFetch ==
    \/ Request
    \/ CheckContentType
    \/ OpenImage
    \/ ScaleRadar
    \/ LoadOldQuant
    \/ SaveCanvas
    \/ Quantize
    \/ CompareQuant
    \/ Interrupt

SpecFetch == InitFetch /\ [][NextFetch]_vars

\* ================================================== the helpers, call by call
\* One call of a helper on an input drawn from a bounded set.
MaxLen == 2
ScoreLen == 3
Thresholds == {0, quantize_threshold}
PixelSamples == {white, black, <<255, 64, 0>>, <<180, 255, 255>>, <<180, 254, 255>>,
                 <<235, 235, 235>>, <<12, 12, 12>>, <<30, 200, 40>>, <<250, 60, 20>>,
                 <<0, 0, 250>>, <<250, 250, 10>>, <<255, 128, 0>>}
ScorePixels == {white, black, <<255, 0, 0>>, <<0, 255, 0>>}
Modes == {"RGB", "YCbCr"}
PercSamples == {0, 10, 60}
NotScored == -1
scan_list == <<"S1", "S2", "S3", "S4", "S5", "S6", "S1">>

\* the sizes an image of n pixels can have
Sizes(n) ==
    IF n = 0 THEN {<<0, 0>>}
    ELSE {sz \in (1..n) \X (1..n) : sz[1] * sz[2] = n}

Images(modes, n, pixels) ==
    {[mode |-> m, size |-> sz, data |-> d, panel |-> <<>>] :
        m \in modes, sz \in Sizes(n), d \in [1..n -> pixels]}

\* lines 209-224 for a list of stations of which outs[k] is the score of the
\* k-th, or NotScored when generate_weather_image returned None for it
RECURSIVE full_station_scan(_, _)
full_station_scan(list, outs) ==
    IF list = <<>> THEN <<>>
    ELSE LET n == Len(list)
             before == full_station_scan(SubSeq(list, 1, n - 1), SubSeq(outs, 1, n - 1))
         IN IF outs[n] = NotScored THEN before ELSE DictSet(before, list[n], outs[n])

InitPure ==
    /\ file = [kind |-> "absent", data |-> EmptyDict]
    /\ quant = [s \in StationNames |-> NoImage]
    /\ canvas = [s \in StationNames |-> NoImage]
    /\ clock = T0
    /\ source = [s \in StationNames |-> 1]
    /\ pc = "idle"
    /\ NoLocals
    /\ ncycles = 0
    /\ nchanges = 0
    /\ cycle = NewCycle
    /\ last_decided = 0
    /\ last_scan = NoScan
    /\ prev_done_quiet = FALSE
    /\ gwi = NoCall
    /\ net = NoNet
    /\ result = NoResult
    /\ \/ \E n \in 1..MaxLen, threshold \in Thresholds :
             \E img \in Images({"RGB"}, n, PixelSamples) :
                arg = [fn |-> "quantize_to_seven_colors", img |-> img,
                       threshold |-> threshold]
       \/ \E n \in 0..ScoreLen :
             \E img \in Images({"RGB"}, n, ScorePixels) :
                arg = [fn |-> "calculate_non_bw_percentage", img |-> img]
       \/ \E n1 \in 1..MaxLen, n2 \in 1..MaxLen :
             \E img1 \in Images(Modes, n1, {white, black}),
                img2 \in Images(Modes, n2, {white, black}) :
                arg = [fn |-> "images_are_equal", img1 |-> img1, img2 |-> img2]
       \/ \E outs \in [1..Len(scan_list) -> PercSamples \cup {NotScored}] :
             arg = [fn |-> "update_top5", list |-> scan_list, outs |-> outs]

idle == <<file, quant, canvas, clock, source, pc, state, now, config, top5_list,
          default_updated, default_percentage, should_update, final_display_image,
          best_station, best_percentage, best_image_path, percentages, idx,
          ncycles, nchanges, cycle, last_decided, last_scan, prev_done_quiet,
          gwi, net, arg>>

\* lines 38-67
CallQuantize ==
    /\ arg.fn = "quantize_to_seven_colors"
    /\ ~result.returned
    /\ result' = [returned |-> TRUE,
                  value |-> quantize_to_seven_colors(arg.img, arg.threshold)]
    /\ UNCHANGED idle

\* lines 193-202
CallPercentage ==
    /\ arg.fn = "calculate_non_bw_percentage"
    /\ ~result.returned
    /\ result' = [returned |-> TRUE, value |-> calculate_non_bw_percentage(arg.img)]
    /\ UNCHANGED idle

\* lines 29-32, called both ways round
CallImagesAreEqual ==
    /\ arg.fn = "images_are_equal"
    /\ ~result.returned
    /\ result' = [returned |-> TRUE,
                  value |-> images_are_equal(arg.img1, arg.img2),
                  swapped |-> images_are_equal(arg.img2, arg.img1)]
    /\ UNCHANGED idle

\* lines 311-314: the scan, update_top5 and the list stored under "top5"
CallUpdateTop5 ==
    /\ arg.fn = "update_top5"
    /\ ~result.returned
    /\ result' = [returned |-> TRUE,
                  value |-> ToTop5Data(update_top5(full_station_scan(arg.list, arg.outs)))]
    /\ UNCHANGED idle

NextPure ==
    \/ CallQuantize
    \/ CallPercentage
    \/ CallImagesAreEqual
    \/ CallUpdateTop5

SpecPure == InitPure /\ [][NextPure]_vars

\* ================================================================ claims
\* the index of the first entry of maximal score in an evaluation sequence
FirstMax(scored) ==
    CHOOSE k \in 1..Len(scored) :
        /\ \A j \in 1..Len(scored) : scored[j].perc <= scored[k].perc
        /\ \A j \in 1..(k - 1) : scored[j].perc < scored[k].perc

\* positions of main() at which final_display_image is settled
SelectionFinal == pc \in {"display", "refresh", "scan", "done"}

\* the cache as loaded at the start of the running cycle
StateAtStart == cycle.file_at_start.data

\* C1: at the end of a cycle the selected image is the first one of strictly
\* highest score in the sequence [default, scored candidates...]: a candidate
\* replaces the default, or an earlier candidate, only with a strictly
\* greater score.
C1_SelectedIsFirstMax ==
    (pc = "done" /\ cycle.scored # <<>>)
        => final_display_image = cycle.scored[FirstMax(cycle.scored)].station

\* C2: a candidate whose fetch fails is skipped: a fetch failure in the
\* candidate loop never ends the cycle.
C2_CandidateFailureSkipped ==
    ~(pc = "aborted" /\ cycle.abort_at = "candidate" /\ cycle.abort_why = "fetch_failed")

\* C3: when a cycle completes after a completed cycle and no source frame
\* changed in between, it reports the default unchanged and does not invoke
\* the display sink.
C3_SecondCycleUnchanged ==
    (pc = "done" /\ prev_done_quiet) => (~default_updated /\ cycle.displayed = <<>>)

\* C4: a cycle that starts with a stale cache and in which an image changed
\* ends with the selection displayed, every station of the list scanned, and
\* the cache file holding the new timestamp and the top5 of that scan.
C4_StaleAndChangedScans ==
    (pc \in {"done", "aborted"} /\ cycle.stale_at_start /\ cycle.changed # {})
        => /\ cycle.displayed = <<final_display_image>>
           /\ cycle.scan_fetched = stations
           /\ file = [kind |-> "json",
                      data |-> [last_full_scan |-> now,
                                top5 |-> ToTop5Data(update_top5(percentages))]]

\* C5 as claimed: every completed cycle that starts with a stale cache runs
\* a full scan, whether or not the default image changed.
C5_StalenessAloneScans ==
    (pc = "done" /\ cycle.stale_at_start) => cycle.scan_fetched = stations

\* C5 as amended: a full scan starts, and the cache is written, only in a
\* cycle that starts stale and in which should_update is set; a cycle whose
\* default image is unchanged ends without a scan and leaves the cache file
\* as it found it, stale or not.
C5_ScanNeedsChange ==
    /\ (pc = "scan" \/ cycle.scan_fetched # <<>> \/ cycle.writes > 0)
           => (cycle.stale_at_start /\ should_update)
    /\ (pc = "done" /\ ~default_updated)
           => (cycle.scan_fetched = <<>> /\ cycle.writes = 0 /\ file = cycle.file_at_start)

C5_StaleUnchangedDone ==
    pc = "done" /\ cycle.stale_at_start /\ ~default_updated /\ cycle.scan_fetched = <<>>

C7_DisplayOnceOnChange ==
    /\ Len(cycle.displayed) <= 1
    /\ cycle.displayed # <<>> => (default_updated /\ default_station \in cycle.changed)

C7_CandidateDisplayed ==
    pc = "done" /\ Len(cycle.displayed) = 1 /\ cycle.displayed[1] # default_station

\* C8 as claimed: a cycle writes the cache file at most once, and a readable
\* cache file holds the timestamp and the top5 of one completed full scan.
C8_WholeReplacement ==
    /\ cycle.writes <= 1
    /\ file.kind = "json"
           => /\ "top5" \in DOMAIN file.data
              /\ file.data.top5 = last_scan.top5
              /\ file.data.last_full_scan = last_scan.ts

\* C8 as amended: a cycle writes the cache file at most twice; a readable
\* cache file holds the timestamp of the last full scan decided upon,
\* completed or not, and holds a top5 exactly when some full scan has
\* completed, which is then the top5 of the last completed one.
C8_TimestampThenTop5 ==
    /\ cycle.writes <= 2
    /\ file.kind = "json"
           => /\ "last_full_scan" \in DOMAIN file.data
              /\ file.data.last_full_scan = last_decided
              /\ ("top5" \in DOMAIN file.data) <=> (last_scan.ts # 0)
              /\ "top5" \in DOMAIN file.data => file.data.top5 = last_scan.top5

C8_NewTimestampOldTop5 ==
    /\ pc = "scan"
    /\ file.kind = "json"
    /\ "top5" \in DOMAIN file.data
    /\ file.data.last_full_scan # last_scan.ts

\* C9: while a full scan fetches stations the cache file already holds the
\* new timestamp and still the top5 the cycle loaded; the second write comes
\* after every station was processed; and a full scan starts only when the
\* interval has elapsed since the last full scan decided upon, completed or
\* interrupted.
C9_TimestampBeforeScan ==
    /\ pc = "scan"
           => /\ file.kind = "json"
              /\ cycle.writes = 1
              /\ file.data = Put(StateAtStart, "last_full_scan", now)
              /\ now - cycle.prev_decided >= full_scan_interval
    /\ cycle.writes = 2 => cycle.scan_fetched = stations

C9_ScanAfterInterruptedScan ==
    /\ pc = "scan"
    /\ cycle.scan_fetched # <<>>
    /\ cycle.prev_decided # 0
    /\ last_scan.ts # cycle.prev_decided

\* C10: a cache file that cannot be parsed never ends the cycle: the cycle
\* goes on to evaluate the default station.
C10_CorruptCacheNotFatal ==
    ~(pc = "aborted" /\ cycle.abort_at = "load_state")

\* C12: when the fetch of the default station fails (not found after the
\* retries, bad status, bad content type) the cycle ends there with the
\* failure raised: no candidate is fetched, nothing is displayed, no station
\* is scanned and the cache file is what it was when the cycle began.
C12_DefaultFailureAborts ==
    cycle.default_outcome = "fetch_failed" =>
        /\ pc = "aborted"
        /\ cycle.abort_at = "default"
        /\ cycle.cand_fetched = <<>>
        /\ cycle.displayed = <<>>
        /\ cycle.scan_fetched = <<>>
        /\ cycle.writes = 0
        /\ file = cycle.file_at_start

\* C12 witness: the default fetch fails in a cycle that had a fresh top5 to
\* search
C12_FailureWithCandidates ==
    /\ cycle.default_outcome = "fetch_failed"
    /\ pc = "aborted"
    /\ top5_list # <<>>
    /\ file.kind = "json"

\* C16: during a full scan a station whose fetch fails in any way (not found
\* after the retries, bad status, bad content type, undecodable body) is left
\* out and the scan goes on: the failure is never raised out of the scan.
C16_ScanFailureNotRaised ==
    cycle.abort_at # "scan"

\* the retry loop is still running (or was interrupted while running)
InLoop == gwi.pc = "request" \/ (gwi.pc = "killed" /\ gwi.at = "request")

\* the attempt whose answer ends the loop: the first that is not a not-found
\* answer, or the third
Settling(responses) ==
    CHOOSE k \in 1..3 :
        /\ responses[k] # 404 \/ k = 3
        /\ \A j \in 1..(k - 1) : responses[j] = 404

\* C11: whatever the endpoint answers, one fetch sends at most 3 requests and
\* ends: a 200 ends the loop with success and no further request, a 404 on
\* attempt 1 or 2 is followed by exactly one more attempt after one delay, a
\* 404 on attempt 3 fails, and any other status fails at once.
C11_RetryLoop ==
    /\ gwi.sent <= 3
    /\ InLoop =>
          /\ gwi.attempt <= 2
          /\ gwi.sent = gwi.attempt
          /\ gwi.slept = gwi.attempt
          /\ \A j \in 1..gwi.sent : net.responses[j] = 404
    /\ ~InLoop =>
          LET n == Settling(net.responses)
          IN /\ gwi.sent = n
             /\ gwi.slept = n - 1
             /\ gwi.status = net.responses[n]
             /\ net.responses[n] # 200 =>
                   /\ gwi.pc = "returned"
                   /\ gwi.ret = None
             /\ (gwi.pc = "returned" /\ gwi.ret = None /\ HasImage(net.content_type))
                   => net.responses[n] # 200

\* C11 witness: three not-found answers, three requests, two delays, failure
C11_ThreeNotFound ==
    /\ gwi.pc = "returned"
    /\ gwi.ret = None
    /\ gwi.sent = 3
    /\ gwi.slept = 2
    /\ gwi.status = 404

\* C13: a scaling mode other than crop and fit is rejected before any request
\* is sent: with an invalid radar_mode no station is fetched.
C13_InvalidModeBeforeRequest ==
    gwi.radar_mode \notin {"crop", "fit"} => gwi.sent = 0

\* C14 as stated: the quantized slot is written only when the new quantized
\* image differs from the one persisted before; when they are equal there is
\* no write.
C14_WriteOnlyWhenDifferent ==
    gwi.quant_writes > 0 => ~images_are_equal(gwi.quant_before, quant[gwi.station])

\* C14 amended: every call that gets as far as quantizing writes the quantized
\* slot once; when the new quantized image equals the one persisted before,
\* the write puts the same image back and the call reports no change, and the
\* slot holds a different image afterwards exactly when the call reports an
\* update.
C14_SlotChangesOnlyWhenDifferent ==
    /\ gwi.quant_writes <= 1
    /\ gwi.quant_writes = 0 => quant[gwi.station] = gwi.quant_before
    /\ (gwi.pc = "returned" /\ gwi.ret = "unchanged") =>
          /\ gwi.quant_writes = 1
          /\ gwi.quant_before # NoImage
          /\ quant[gwi.station] = gwi.quant_before
    /\ (gwi.pc = "returned" /\ gwi.ret = "updated") =>
          /\ gwi.quant_writes = 1
          /\ quant[gwi.station] # gwi.quant_before

\* C14 witness: an unchanged frame, and the slot has been written all the same
C14_EqualYetWritten ==
    /\ gwi.pc = "returned"
    /\ gwi.ret = "unchanged"
    /\ gwi.quant_writes = 1
    /\ quant[gwi.station] = gwi.quant_before

\* quantize_to_seven_colors has saved its result
QuantizeDone ==
    \/ gwi.pc = "compare"
    \/ gwi.pc = "killed" /\ gwi.at = "compare"
    \/ gwi.pc = "returned" /\ gwi.ret \in {"unchanged", "updated"}

\* C15 as stated: both slots are written only after fetch, composite and
\* quantize have all succeeded; a failed fetch or a run interrupted before
\* quantization completes leaves both slots as they were.
C15_SlotsWrittenAfterQuantize ==
    ~QuantizeDone =>
        /\ gwi.canvas_writes = 0
        /\ gwi.quant_writes = 0
        /\ canvas[gwi.station] = gwi.canvas_before
        /\ quant[gwi.station] = gwi.quant_before

\* C15 amended: the canvas slot is written once fetch, decoding and scaling
\* have succeeded, before quantization; the quantized slot is written after
\* that, when quantization ends. A failed fetch, an exception, or a run
\* interrupted before the canvas is saved leaves both slots as they were; a
\* run interrupted during quantization leaves the quantized slot as it was.
C15_WritesOrdered ==
    /\ gwi.canvas_writes = 0 =>
          /\ canvas[gwi.station] = gwi.canvas_before
          /\ gwi.quant_writes = 0
    /\ gwi.quant_writes = 0 => quant[gwi.station] = gwi.quant_before
    /\ gwi.quant_writes > 0 <=> QuantizeDone
    /\ gwi.canvas_writes > 0 =>
          /\ gwi.status = 200
          /\ HasImage(net.content_type)
          /\ net.decodable
          /\ gwi.radar_mode \in {"crop", "fit"}
    /\ (gwi.ret = None \/ gwi.pc = "raised") =>
          /\ gwi.canvas_writes = 0
          /\ gwi.quant_writes = 0

\* C15 witness: interrupted while quantizing, the canvas slot already holds
\* the new canvas and the quantized slot still the old image
C15_InterruptedWhileQuantizing ==
    /\ gwi.pc = "killed"
    /\ gwi.at = "quantize"
    /\ gwi.quant_before # NoImage
    /\ canvas[gwi.station] # gwi.canvas_before
    /\ quant[gwi.station] = gwi.quant_before

Returned(fn) == arg.fn = fn /\ result.returned

\* the positions of the scan list whose station was scored
ScoredAt == {k \in 1..Len(arg.list) : arg.outs[k] # NotScored}
ScoredStations == {arg.list[k] : k \in ScoredAt}
\* the score a station ends the scan with: that of its last scored position
FinalScore(s) ==
    LET last == CHOOSE k \in ScoredAt :
                    /\ arg.list[k] = s
                    /\ \A j \in ScoredAt : arg.list[j] = s => j <= k
    IN arg.outs[last]

\* C17: the top5 written to the cache is sorted by percentage, highest first,
\* has at most 5 entries, names each station at most once, and holds the
\* highest-scoring of the stations scored, each with its score.
C17_Top5Shape ==
    Returned("update_top5") =>
        LET t == result.value
            listed == {t[i].station : i \in 1..Len(t)}
        IN /\ Len(t) <= 5
           /\ Len(t) = IF Cardinality(ScoredStations) < 5
                       THEN Cardinality(ScoredStations) ELSE 5
           /\ \A i \in 1..Len(t) : \A j \in (i + 1)..Len(t) :
                 /\ t[i].percentage >= t[j].percentage
                 /\ t[i].station # t[j].station
           /\ \A i \in 1..Len(t) :
                 /\ t[i].station \in ScoredStations
                 /\ t[i].percentage = FinalScore(t[i].station)
           /\ \A s \in ScoredStations \ listed : \A i \in 1..Len(t) :
                 FinalScore(s) <= t[i].percentage

\* C17 witness: six stations scored, one of them twice, five listed and the
\* lowest left out
C17_SixScoredFiveKept ==
    /\ Returned("update_top5")
    /\ Cardinality(ScoredStations) = 6
    /\ arg.outs[1] # arg.outs[7]
    /\ Len(result.value) = 5
    /\ \E s \in ScoredStations :
          /\ \A i \in 1..5 : result.value[i].station # s
          /\ FinalScore(s) < result.value[5].percentage

SevenColors == {white, black, <<255, 0, 0>>, <<0, 255, 0>>, <<0, 0, 255>>,
                <<255, 255, 0>>, <<255, 128, 0>>}

\* C18: quantize_to_seven_colors maps every pixel whose distance to white is at
\* most the threshold to white, and every other pixel to the nearest of red,
\* green, blue, yellow, orange, black, the first in that order winning a tie;
\* the output has the input's dimensions and only these seven colours.
C18_QuantizeNearest ==
    Returned("quantize_to_seven_colors") =>
        LET in == arg.img
            out == result.value
        IN /\ out.size = in.size
           /\ out.mode = in.mode
           /\ Len(out.data) = Len(in.data)
           /\ \A k \in 1..Len(in.data) :
                 LET p == in.data[k]
                     q == out.data[k]
                 IN /\ q \in SevenColors
                    /\ IF distance2(p, white) <= arg.threshold * arg.threshold
                       THEN q = white
                       ELSE \E a \in 1..6 :
                               /\ q = palette_5[a]
                               /\ \A b \in 1..6 :
                                     distance2(p, palette_5[a]) <= distance2(p, palette_5[b])
                               /\ \A b \in 1..(a - 1) :
                                     distance2(p, palette_5[b]) > distance2(p, palette_5[a])

\* C18 witness: a pixel as far from red as from orange goes to red, and one at
\* distance exactly 75 from white goes to white
C18_TieAndBoundary ==
    /\ Returned("quantize_to_seven_colors")
    /\ arg.threshold = 75
    /\ arg.img.data = << <<255, 64, 0>>, <<180, 255, 255>> >>
    /\ result.value.data = << <<255, 0, 0>>, white >>

\* C19: calculate_non_bw_percentage returns 100 times the number of pixels
\* that are neither black nor white over the number of pixels (here: its whole
\* part), a number from 0 to 100: 0 when all pixels are black or white, 100
\* when none is, and 0 for an image of no pixels.
C19_PercentageOfNonBw ==
    Returned("calculate_non_bw_percentage") =>
        LET data == arg.img.data
            n == Len(data)
            c == Cardinality({k \in 1..n : data[k] # black /\ data[k] # white})
            v == result.value
        IN /\ v \in 0..100
           /\ n = 0 => v = 0
           /\ n > 0 => v * n <= 100 * c /\ 100 * c < (v + 1) * n
           /\ c = 0 => v = 0
           /\ (n > 0 /\ c = n) => v = 100

\* C19 witness: one coloured pixel of three scores 33
C19_OneOfThree ==
    /\ Returned("calculate_non_bw_percentage")
    /\ Len(arg.img.data) = 3
    /\ arg.img.data[2] = <<255, 0, 0>>
    /\ arg.img.data[1] = white
    /\ arg.img.data[3] = black
    /\ result.value = 33

\* C20: images_are_equal is reflexive and symmetric, is true only if mode,
\* dimensions and every pixel match, and is false whenever mode or dimensions
\* differ, whatever the pixels.
C20_EqualityOfImages ==
    Returned("images_are_equal") =>
        /\ arg.img1 = arg.img2 => result.value
        /\ result.value = result.swapped
        /\ result.value =>
              /\ arg.img1.mode = arg.img2.mode
              /\ arg.img1.size = arg.img2.size
              /\ Len(arg.img1.data) = Len(arg.img2.data)
              /\ \A k \in 1..Len(arg.img1.data) : arg.img1.data[k] = arg.img2.data[k]
        /\ (arg.img1.mode # arg.img2.mode \/ arg.img1.size # arg.img2.size)
              => ~result.value

\* C20 witness: the same pixels in the same mode, two across against two down,
\* are not equal
C20_SamePixelsOtherShape ==
    /\ Returned("images_are_equal")
    /\ arg.img1.mode = arg.img2.mode
    /\ arg.img1.data = arg.img2.data
    /\ arg.img1.size = <<2, 1>>
    /\ arg.img2.size = <<1, 2>>
    /\ ~result.value

\* the cycle has loaded the cache and read the clock
PastLoad == pc # "idle" /\ cycle.abort_at # "load_state"

\* the cycle has started on a full scan
Scanning == pc = "scan" \/ cycle.scan_fetched # <<>>

\* C21: the cached top5 counts as fresh, and the cache as stale, against the
\* one 'now' read when the cycle began, and never both: fresh when a timestamp
\* is recorded and now - last_full_scan < full_scan_interval, stale otherwise.
\* So no cycle both searches the cached top5 and runs a full scan.
C21_FreshOrStaleNotBoth ==
    PastLoad =>
        LET recorded == Get(StateAtStart, "last_full_scan", 0)
            fresh == recorded # 0 /\ now - recorded < full_scan_interval
        IN /\ top5_list # <<>> /\ ~Scanning /\ pc # "done" => fresh
           /\ cycle.cand_fetched # <<>> => fresh
           /\ cycle.stale_at_start <=> ~fresh
           /\ Scanning => ~fresh
           /\ ~(cycle.cand_fetched # <<>> /\ Scanning)

\* C21 witness: the candidates were searched, the interval has run out on the
\* clock since, and the cycle is at its staleness check
C21_IntervalRunsOutInCycle ==
    /\ pc = "refresh"
    /\ cycle.cand_fetched # <<>>
    /\ now - StateAtStart["last_full_scan"] < full_scan_interval
    /\ clock - StateAtStart["last_full_scan"] >= full_scan_interval

\* a candidate is displayed only if its image changed and it scored above 0:
\* the candidates fetched and found unchanged are not scored, and a selection
\* other than the default is a scored candidate with a positive score
SelectedCandidateScored ==
    SelectionFinal =>
        /\ \A k \in 2..Len(cycle.scored) :
              \E j \in 1..Len(cycle.cand_fetched) :
                  cycle.cand_fetched[j] = cycle.scored[k].station
        /\ final_display_image # default_station =>
              \E k \in 2..Len(cycle.scored) :
                  /\ cycle.scored[k].station = final_display_image
                  /\ cycle.scored[k].perc > 0

\* a candidate was fetched, found unchanged and passed over, and the search
\* went on to a selection
UnchangedCandidatePassedOver ==
    /\ SelectionFinal
    /\ \E j \in 1..Len(cycle.cand_fetched) :
          \A k \in 1..Len(cycle.scored) :
              cycle.scored[k].station # cycle.cand_fetched[j]

\* C22: in the candidate search a candidate whose image is fetched and found
\* equal to its persisted one is handled exactly like one whose fetch failed:
\* either is passed over, without a score, and the search goes on; a candidate
\* scoring 0 is not selected, and the display switches to a candidate only if
\* its image changed and it scored above 0.
C22_UnchangedLikeFailure ==
    /\ SelectedCandidateScored
    /\ cycle.abort_at = "candidate" => cycle.abort_why \notin {"fetch_failed"}

====
